---- MODULE Spec2Model ----
(***************************************************************************)
(* Model of the GeoService class of server/geo-service.js: the LRU cache,  *)
(* the pending-request map, the rate limiter, the circuit breaker and the  *)
(* retry wrapper around the upstream call, under the cooperative           *)
(* scheduling of the JavaScript event loop.                                *)
(*                                                                         *)
(* Time is counted in units of 1000 ms.  An IP string is a sequence of    *)
(* one-character strings.  The statistics counters (this.stats) are only   *)
(* read by getStats and never steer the control flow; they are left out.   *)
(*                                                                         *)
(* The second part models the server that uses the service (server.js, in  *)
(* the sources as unnamed/part_002): the WebSocket connections, the two    *)
(* polling timers, and pollDNSLogs with its set of processed ids.          *)
(***************************************************************************)
EXTENDS Integers, Sequences, FiniteSets, TLC

(***************************************************************************)
(* Text helpers                                                            *)
(***************************************************************************)
Digits == <<"0", "1", "2", "3", "4", "5", "6", "7", "8", "9">>

UpperCase == <<"A", "B", "C", "D", "E", "F", "G", "H", "I", "J", "K", "L", "M",
               "N", "O", "P", "Q", "R", "S", "T", "U", "V", "W", "X", "Y", "Z">>

LowerCase == <<"a", "b", "c", "d", "e", "f", "g", "h", "i", "j", "k", "l", "m",
               "n", "o", "p", "q", "r", "s", "t", "u", "v", "w", "x", "y", "z">>

Range(s) == {s[i] : i \in DOMAIN s}

DigitChars == Range(Digits)

WordChars == Range(Digits) \cup Range(UpperCase) \cup Range(LowerCase) \cup {"_"}

IsDigit(c) == c \in DigitChars

DigitVal(c) == (CHOOSE i \in DOMAIN Digits : Digits[i] = c) - 1

\* the class \w of a JavaScript regular expression
IsWordChar(c) == c \in WordChars

IsSpace(c) == c \in {" ", "\t", "\n"}

\* String.prototype.toLowerCase, one character
LowerChar(c) ==
  IF c \in Range(UpperCase)
    THEN LowerCase[CHOOSE i \in DOMAIN UpperCase : UpperCase[i] = c]
    ELSE c

toLowerCase(s) == [i \in DOMAIN s |-> LowerChar(s[i])]

\* String.prototype.trim
RECURSIVE TrimLeft(_)
TrimLeft(s) ==
  IF s # <<>> /\ IsSpace(Head(s)) THEN TrimLeft(Tail(s)) ELSE s

RECURSIVE TrimRight(_)
TrimRight(s) ==
  IF s # <<>> /\ IsSpace(s[Len(s)]) THEN TrimRight(SubSeq(s, 1, Len(s) - 1)) ELSE s

trim(s) == TrimRight(TrimLeft(s))

\* String.prototype.includes, one character
includes(s, c) == \E i \in DOMAIN s : s[i] = c

\* String.prototype.startsWith
startsWith(s, p) == Len(s) >= Len(p) /\ SubSeq(s, 1, Len(p)) = p

\* String.prototype.split on one separator character
RECURSIVE split(_, _)
split(s, sep) ==
  IF ~includes(s, sep)
    THEN <<s>>
    ELSE LET i == CHOOSE j \in DOMAIN s : s[j] = sep /\ \A k \in 1..(j - 1) : s[k] # sep
         IN  <<SubSeq(s, 1, i - 1)>> \o split(SubSeq(s, i + 1, Len(s)), sep)

\* NaN of parseInt
NaN == -1

\* parseInt(p, 10) on text without sign or leading blanks: the value of the
\* leading run of decimal digits, NaN when there is none
RECURSIVE DigitRun(_, _)
DigitRun(s, acc) ==
  IF s = <<>> \/ ~IsDigit(Head(s)) THEN acc
  ELSE DigitRun(Tail(s), acc * 10 + DigitVal(Head(s)))

parseInt(s) ==
  IF s = <<>> \/ ~IsDigit(Head(s)) THEN NaN ELSE DigitRun(s, 0)

isNaN(o) == o = NaN

(***************************************************************************)
(* Validation and classification of the input                              *)
(***************************************************************************)
MaxIpLength == 45

\* the value null of sanitizeIp
NoIp == <<"null">>

\* A lookup argument: kind is the JavaScript type, text the characters.
isValidInput(ip) ==
  /\ ip.kind = "string"
  /\ Len(ip.text) > 0
  /\ Len(ip.text) <= MaxIpLength

IsIpChar(c) == IsWordChar(c) \/ c \in {".", ":", "[", "]"}

\* a sanitizer that returns what is left, whatever its length
sanitizeIpUnchecked(text) == SelectSeq(trim(text), IsIpChar)

sanitizeIp(text) ==
  LET cleaned == SelectSeq(trim(text), IsIpChar)
  IN  IF Len(cleaned) = 0 \/ Len(cleaned) > MaxIpLength THEN NoIp ELSE cleaned

\* the classification without the 192.168.0.0/16 rule
isPrivateIPv4No192(octets) ==
  LET first == octets[1]
      second == octets[2]
  IN  first = 10 \/ first = 127 \/ (first = 172 /\ second >= 16 /\ second <= 31)

isPrivateIPv4(octets) ==
  LET first == octets[1]
      second == octets[2]
      third == octets[3]
  IN  \/ first = 10
      \/ first = 127
      \/ (first = 172 /\ second >= 16 /\ second <= 31)
      \/ (first = 192 /\ second = 168)
      \/ first = 0
      \/ (first = 169 /\ second = 254)
      \/ first = 255
      \/ (first = 100 /\ second >= 64 /\ second <= 127)
      \/ (first = 192 /\ second = 0 /\ (third = 0 \/ third = 2))
      \/ (first = 198 /\ second = 18)
      \/ (first = 198 /\ second = 51 /\ third = 100)
      \/ (first = 203 /\ second = 0 /\ third = 113)
      \/ first >= 224

isPrivateIPv6(lower) ==
  \/ startsWith(lower, <<"f", "e", "8", "0", ":">>)
  \/ startsWith(lower, <<"f", "e", "8", "0", ":", ":">>)
  \/ startsWith(lower, <<"f", "e", "c", "0", ":">>)
  \/ startsWith(lower, <<"f", "c", "0", "0", ":">>)
  \/ startsWith(lower, <<"f", "d", "0", "0", ":">>)
  \/ lower = <<":", ":", "1">>
  \/ lower = <<":", ":">>
  \/ startsWith(lower, <<"f", "f", "0", "0", ":">>)
  \/ startsWith(lower, <<"2", "0", "0", "1", ":", "d", "b", "8", ":">>)
  \/ startsWith(lower, <<"2", "0", "0", "1", ":", "1", "0", ":">>)
  \/ startsWith(lower, <<"2", "0", "0", "2", ":">>)

\* a classification that only knows the IPv6 ranges
isPrivateIPv6Only(ip) == includes(ip, ":") /\ isPrivateIPv6(toLowerCase(ip))

isPrivateIP(ip) ==
  IF ip = <<>> THEN TRUE
  ELSE IF includes(ip, ".") THEN
    LET parts == split(ip, ".")
        octets == [i \in DOMAIN parts |-> parseInt(parts[i])]
    IN  IF Len(parts) # 4 THEN TRUE
        ELSE IF \E i \in DOMAIN octets : isNaN(octets[i]) \/ octets[i] < 0 \/ octets[i] > 255
          THEN TRUE
        ELSE isPrivateIPv4(octets)
  ELSE IF includes(ip, ":") THEN isPrivateIPv6(toLowerCase(ip))
  ELSE TRUE

(***************************************************************************)
(* Configuration and program constants (times in units of 1000 ms)         *)
(***************************************************************************)
requestWindow == 60
MaxRateLimitWait == 2
maxFailures == 5
resetTimeout == 30

\* bounds of the model
NumRes == 2
MaxJoin == 1
MaxTicks == 3

\* the time of the initial state: any time at least requestWindow after the epoch
StartTime == 100
MaxTime == StartTime + MaxTicks

\* the lookup arguments the callers draw from
Str(text) == [kind |-> "string", text |-> text]

PublicInputs ==
  { Str(<<"8", ".", "8", ".", "8", ".", "8">>),
    Str(<<"1", ".", "1", ".", "1", ".", "1">>) }

MorePublicInputs == { Str(<<"9", ".", "9", ".", "9", ".", "9">>) }

\* arguments that lines 83-91 of lookup turn away: null, a number, the empty
\* string, a string of 46 characters, strings of which sanitizeIp keeps nothing
InvalidInputs ==
  { [kind |-> "null", text |-> <<>>],
    [kind |-> "number", text |-> <<>>],
    Str(<<>>),
    Str([i \in 1..(MaxIpLength + 1) |-> "1"]),
    Str(<<" ", " ">>),
    Str(<<"!", "?">>) }

OtherInputs ==
  { Str(<<" ", "8", ".", "8", ".", "8", ".", "8">>),
    Str(<<"1", "9", "2", ".", "1", "6", "8", ".", "1", ".", "5">>),
    Str(<<>>),
    [kind |-> "null", text |-> <<>>] }

\* dotted quads at both ends of 198.18.0.0/15, 100.64.0.0/10 and 172.16.0.0/12,
\* in 169.254.0.0/16 and at the start of 224.0.0.0/4
QuadInputs ==
  { Str(<<"1", "9", "8", ".", "1", "8", ".", "0", ".", "1">>),
    Str(<<"1", "9", "8", ".", "1", "9", ".", "0", ".", "1">>),
    Str(<<"1", "0", "0", ".", "6", "4", ".", "0", ".", "1">>),
    Str(<<"1", "0", "0", ".", "1", "2", "7", ".", "0", ".", "1">>),
    Str(<<"1", "7", "2", ".", "1", "6", ".", "0", ".", "1">>),
    Str(<<"1", "7", "2", ".", "3", "1", ".", "0", ".", "1">>),
    Str(<<"1", "6", "9", ".", "2", "5", "4", ".", "1", ".", "1">>),
    Str(<<"2", "2", "4", ".", "0", ".", "0", ".", "1">>) }

\* strings that are no plain address: bracketed, with a port, IPv6 text of
\* fc00::/7 and ff00::/8 under other prefixes than fc00: and ff00:, text that
\* is no address at all; and one routable IPv6 address
AmbiguousInputs ==
  { Str(<<"[", ":", ":", "1", "]">>),
    Str(<<"8", ".", "8", ".", "8", ".", "8", ":", "8", "0">>),
    Str(<<"f", "d", "1", "2", ":", ":", "1">>),
    Str(<<"f", "f", "0", "2", ":", ":", "1">>),
    Str(<<"a", "b", "c">>),
    Str(<<"1", ".", "2", ".", "3">>),
    Str(<<"a", ":", "b">>),
    Str(<<"2", "a", "0", "0", ":", ":", "1">>) }

Inputs ==
  PublicInputs \cup MorePublicInputs \cup OtherInputs \cup InvalidInputs \cup QuadInputs
    \cup AmbiguousInputs

\* lines 83-91 of lookup, tabulated over the inputs: the sanitized key, NoIp
\* when lookup returns null for the input
KeyOf == [i \in Inputs |-> IF isValidInput(i) THEN sanitizeIp(i.text) ELSE NoIp]

Keys == {KeyOf[i] : i \in Inputs} \ {NoIp}

\* line 118 of lookup, tabulated over the keys
PrivateKeys == {k \in Keys : isPrivateIP(k)}

\* results: null, or a coordinate <<lat, lng>>
Null == <<>>
Payloads == {<<37, -122>>, <<91, 0>>}

isValidCoordinate(lat, lng) ==
  lat >= -90 /\ lat <= 90 /\ lng >= -180 /\ lng <= 180

ResIds == 1..NumRes
NullTime == -1

VARIABLES
  options,          \* the constructor's options as validatePositiveInteger left them
  cache,            \* this.cache: the Map as the sequence of its <<key, value>> entries in insertion order
  pendingRequests,  \* this.pendingRequests: key -> the resolution whose promise it holds, 0 when absent
  requestQueue,     \* this.requestQueue
  lastRequestTime,  \* this.lastRequestTime
  circuitBreaker,   \* this.circuitBreaker: failures, state, lastFailureTime
  now,              \* Date.now()
  res,              \* the lookupPromise chains: where each one is suspended, and (history) the
                    \*          state the breaker had when the lookup came to its gate and the
                    \*          time its request in flight was sent
  waiters,          \* per resolution, the lookup calls whose promise follows it
  settled,          \* history: the lookup promises the last step settled
  known,            \* history: per key, the value its last settled lookup had, while the cache kept the key
  lru,              \* history: the order a reference LRU cache keeps, the key the last step evicted,
                    \*          the cached keys a hit has moved from a place before the end
  admissions,       \* history: the times at which checkRateLimit admitted a request (line 301)
  rejected,         \* history: the keys whose cache entry a lookup turned away by the open breaker
                    \*          wrote (line 131), while the cache has kept that entry
  workload,         \* the run's callers: the arguments they pass, how many resolutions they keep in flight;
                    \*   for the server, how many polls are in flight together and how many queries are logged
  track,            \* the histories kept in this run, of "known", "lru", "admissions", "rejected",
                    \*   "processed"
  config,           \* server: config.pollInterval, config.statsInterval, config.maxProcessedIds
  sockets,          \* server: per WebSocket, the events the ws library has still to emit for it
  activeConnections,    \* server: the Set activeConnections
  dnsPollingInterval,   \* server: the timer of the DNS poll, NoTimer for null
  statsPollingInterval, \* server: the timer of the stats poll, NoTimer for null
  timers,           \* server: the intervals the event loop holds: kind, id, the time of the next run
  processedIds,     \* server: the Set processedIds as the sequence of its ids in insertion order
  lastPollTime,     \* server: lastPollTime
  polls,            \* server: the calls of pollDNSLogs in flight: where each one is suspended
  queryLog,         \* the entries AdGuard Home has logged
  processed         \* history: per entry id, how often processDNSEntry was called for it (2: more than once)

vars == <<options, cache, pendingRequests, requestQueue, lastRequestTime, circuitBreaker,
          now, res, waiters, settled, known, lru, admissions, rejected, workload, track,
          config, sockets, activeConnections, dnsPollingInterval, statsPollingInterval,
          timers, processedIds, lastPollTime, polls, queryLog, processed>>

\* the state of the server and of the query log
serverVars == <<config, sockets, activeConnections, dnsPollingInterval, statsPollingInterval,
                timers, processedIds, lastPollTime, polls, queryLog, processed>>

\* the state of the GeoService and its histories
geoVars == <<options, cache, pendingRequests, requestQueue, lastRequestTime, circuitBreaker,
             res, waiters, settled, known, lru, admissions, rejected, workload, track>>

maxCacheSize == options.maxCacheSize
maxRetries == options.maxRetries
retryDelay == options.retryDelay
apiTimeout == options.apiTimeout
maxRequestsPerMinute == options.maxRequestsPerMinute
minRequestDelay == options.minRequestDelay

(***************************************************************************)
(* The Map operations the service uses                                     *)
(***************************************************************************)
MapHas(m, k) == \E i \in DOMAIN m : m[i][1] = k

MapGet(m, k) == m[CHOOSE i \in DOMAIN m : m[i][1] = k][2]

MapDelete(m, k) == SelectSeq(m, LAMBDA e : e[1] # k)

\* Map.prototype.set: an existing key keeps its place, a new key goes last
MapSet(m, k, v) ==
  IF MapHas(m, k)
    THEN [i \in DOMAIN m |-> IF m[i][1] = k THEN <<k, v>> ELSE m[i]]
    ELSE Append(m, <<k, v>>)

MapKeys(m) == {m[i][1] : i \in DOMAIN m}

\* a write that is lost
addToCacheLost(m, ip, data) == m

\* a write that never evicts
addToCacheNoEvict(m, ip, data) == MapSet(m, ip, data)

addToCache(m, ip, data) ==
  LET kept == IF Len(m) >= maxCacheSize THEN MapDelete(m, m[1][1]) ELSE m
  IN  MapSet(kept, ip, data)

\* a hit that leaves the entry in its place
cacheHitInPlace(m, ip) == m

\* lines 94-104 of lookup: the hit moves the entry to the end
cacheHit(m, ip) == MapSet(MapDelete(m, ip), ip, MapGet(m, ip))

(***************************************************************************)
(* Rate limiter                                                            *)
(***************************************************************************)
\* checkRateLimit up to its first suspension point (lines 268-280), entered at
\* time t: it throws, sleeps for the remaining delay, or goes on to the window
\* an entry that waits for any remainder
rateLimitEntryWaits(t, last) ==
  IF t - last < minRequestDelay
    THEN [kind |-> "sleep", wait |-> minRequestDelay - (t - last)]
    ELSE [kind |-> "window", wait |-> 0]

rateLimitEntry(t, last) ==
  LET timeSinceLastRequest == t - last
      waitTime == minRequestDelay - timeSinceLastRequest
  IN  IF timeSinceLastRequest < minRequestDelay
        THEN IF waitTime > MaxRateLimitWait
               THEN [kind |-> "throw", wait |-> 0]
               ELSE [kind |-> "sleep", wait |-> waitTime]
        ELSE [kind |-> "window", wait |-> 0]

\* an admission that leaves no trace in the window
recordRequestLost(queue, time) == queue

\* lines 301-302: the admission is recorded at the time read there
recordRequest(queue, time) == Append(queue, time)

\* checkRateLimit from line 282 on: t is the time read on entry (line 268),
\* fresh the time read at line 301
rateLimitWindow(queue, t, fresh) ==
  LET windowStart == t - requestWindow
      kept == SelectSeq(queue, LAMBDA time : time > windowStart)
      full == Len(kept) >= maxRequestsPerMinute
  IN  IF full /\ requestWindow - (t - kept[1]) > 0
        THEN [admitted |-> FALSE, queue |-> kept]
        ELSE [admitted |-> TRUE, queue |-> recordRequest(kept, fresh)]

(***************************************************************************)
(* Circuit breaker                                                         *)
(***************************************************************************)
\* the number a timestamp takes in arithmetic: null counts as 0
TimeOf(t) == IF t = NullTime THEN 0 ELSE t

\* a failure that is counted but never trips the breaker
handleApiFailureNoTrip(cb, t) ==
  [failures |-> cb.failures + 1, state |-> cb.state, lastFailureTime |-> t]

handleApiFailure(cb, t) ==
  LET failures == cb.failures + 1
  IN  [failures |-> failures,
       state |-> IF failures >= maxFailures THEN "OPEN" ELSE cb.state,
       lastFailureTime |-> t]

\* lines 143-149 of lookup: what a result does to the breaker
onResult(cb, result) ==
  IF result # Null
    THEN [cb EXCEPT !.failures = 0,
                    !.state = IF cb.state = "HALF_OPEN" THEN "CLOSED" ELSE cb.state]
    ELSE cb

(***************************************************************************)
(* Promises and history                                                    *)
(***************************************************************************)
IdleRes == [pc |-> "idle", ip |-> NoIp, attempt |-> 0, entered |-> 0, wake |-> 0, gate |-> "none", sent |-> NullTime]

Active(r) == res[r].pc # "idle"

\* the resolution a lookup that goes to the upstream takes: the first idle one
NewRes == CHOOSE r \in ResIds : ~Active(r) /\ \A q \in ResIds : q < r => Active(q)

\* what the promise of an async function settles to, and by which path of
\* lookup: "invalid", "hit", "private", "open" (rejected by the open breaker),
\* "ratelimit", "circuit" (an upstream error dropped because the breaker is
\* open), "response" (apiLookup returned), "failure" (the retries are used up)
Resolved(v, via) == [how |-> "resolved", val |-> v, via |-> via]
Rejected(via) == [how |-> "rejected", val |-> Null, via |-> via]

\* n lookup promises that settled alike: the key, the resolution they followed
\* (0 when lookup returned without one), their role (the call that started the
\* resolution, the calls that joined it, a call that returned directly), and
\* the settlement
Event(ip, r, role, n, s) ==
  [ip |-> ip, res |-> r, role |-> role, n |-> n, how |-> s.how, val |-> s.val, via |-> s.via]

None == <<"none">>

\* the reference cache of the design: a read or a write makes the key the most
\* recently used, a write of a new key to a full cache first drops the least
\* recently used
Touch(order, k) ==
  IF k \in Range(order)
    THEN Append(SelectSeq(order, LAMBDA x : x # k), k)
    ELSE Append(IF Len(order) >= maxCacheSize THEN Tail(order) ELSE order, k)

PlaceOf(m, k) == CHOOSE i \in DOMAIN m : m[i][1] = k

\* The histories after a step that settled `events`, read or wrote the cache
\* entry of `touched` (NoIp when none), or cleared the cache.  known: the
\* settled value per key, forgotten when the cache drops the key.
History(events, cleared, touched) ==
  /\ settled' = events
  /\ track' = track
  /\ admissions' = IF /\ "admissions" \in track
                      /\ \E r \in ResIds : res'[r].pc = "admitted" /\ res[r].pc # "admitted"
                     THEN Append(admissions, now')
                     ELSE admissions
  /\ rejected' = IF "rejected" \notin track \/ cleared THEN {}
                 ELSE ((rejected \ {e.ip : e \in {f \in events : f.role = "start"}})
                         \cup {e.ip : e \in {f \in events : f.via = "open"}})
                       \cap MapKeys(cache')
  /\ workload' = workload
  /\ known' = [k \in DOMAIN known |->
                 IF "known" \notin track THEN None
                 ELSE IF \E e \in events : e.ip = k
                   THEN (CHOOSE e \in events : e.ip = k).val
                 ELSE IF cleared \/ (k \in MapKeys(cache) /\ k \notin MapKeys(cache'))
                   THEN None
                 ELSE known[k]]
  /\ lru' = IF "lru" \notin track THEN lru
            ELSE IF cleared THEN [order |-> <<>>, evicted |-> NoIp, promoted |-> {}]
            ELSE [order |-> IF touched = NoIp THEN lru.order ELSE Touch(lru.order, touched),
                  evicted |-> IF MapKeys(cache) \ MapKeys(cache') = {} THEN NoIp
                              ELSE CHOOSE k \in MapKeys(cache) \ MapKeys(cache') : TRUE,
                  promoted |-> ((lru.promoted \cap MapKeys(cache'))
                                 \cup IF /\ touched # NoIp
                                         /\ MapHas(cache, touched)
                                         /\ PlaceOf(cache, touched) < Len(cache)
                                        THEN {touched} ELSE {})]

(***************************************************************************)
(* lookup: the calls                                                       *)
(***************************************************************************)
\* lines 79-91: invalid input
LookupInvalid(inp) ==
  /\ KeyOf[inp] = NoIp
  /\ UNCHANGED <<serverVars, options, cache, pendingRequests, requestQueue, lastRequestTime,
                 circuitBreaker, now, res, waiters>>
  /\ History({Event(NoIp, 0, "direct", 1, Resolved(Null, "invalid"))}, FALSE, NoIp)

\* a cache check that never finds the key
cacheHasNever(m, ip) == FALSE

\* line 94: this.cache.has(sanitizedIp)
cacheHas(m, ip) == MapHas(m, ip)

\* lines 93-105: cache hit
LookupHit(inp) ==
  /\ KeyOf[inp] # NoIp
  /\ LET sanitizedIp == KeyOf[inp]
     IN  /\ cacheHas(cache, sanitizedIp)
         /\ cache' = cacheHit(cache, sanitizedIp)
         /\ UNCHANGED <<serverVars, options, pendingRequests, requestQueue, lastRequestTime,
                        circuitBreaker, now, res, waiters>>
         /\ History({Event(sanitizedIp, 0, "direct", 1, Resolved(MapGet(cache, sanitizedIp), "hit"))},
                    FALSE, sanitizedIp)

\* a lookup that never finds the pending request
hasPendingNever(pending, ip) == FALSE

\* line 110: this.pendingRequests.has(sanitizedIp)
hasPending(pending, ip) == pending[ip] # 0

\* lines 109-113: join the pending request (this caller's promise follows it)
LookupJoin(inp) ==
  /\ KeyOf[inp] # NoIp
  /\ LET sanitizedIp == KeyOf[inp]
     IN  /\ ~cacheHas(cache, sanitizedIp)
         /\ hasPending(pendingRequests, sanitizedIp)
         /\ waiters[pendingRequests[sanitizedIp]] < MaxJoin
         /\ waiters' = [waiters EXCEPT ![pendingRequests[sanitizedIp]] = @ + 1]
         /\ UNCHANGED <<serverVars, options, cache, pendingRequests, requestQueue, lastRequestTime,
                        circuitBreaker, now, res>>
         /\ History({}, FALSE, NoIp)

\* lines 117-121: private or reserved address
LookupPrivate(inp) ==
  /\ KeyOf[inp] # NoIp
  /\ LET sanitizedIp == KeyOf[inp]
     IN  /\ ~cacheHas(cache, sanitizedIp)
         /\ ~hasPending(pendingRequests, sanitizedIp)
         /\ sanitizedIp \in PrivateKeys
         /\ UNCHANGED <<serverVars, options, cache, pendingRequests, requestQueue, lastRequestTime,
                        circuitBreaker, now, res, waiters>>
         /\ History({Event(sanitizedIp, 0, "direct", 1, Resolved(Null, "private"))}, FALSE, NoIp)

\* a gate that is always open
circuitAllowsAlways(cb, t) == TRUE

\* a gate that opens when exactly the reset timeout has elapsed
circuitAllowsAtTimeout(cb, t) ==
  cb.state # "OPEN" \/ t - TimeOf(cb.lastFailureTime) >= resetTimeout

\* lines 124-126: whether an OPEN breaker lets this call through
circuitAllows(cb, t) ==
  cb.state # "OPEN" \/ t - TimeOf(cb.lastFailureTime) > resetTimeout

\* lines 123-134, the breaker is OPEN and the reset timeout has not elapsed
LookupCircuitOpen(inp) ==
  /\ KeyOf[inp] # NoIp
  /\ LET sanitizedIp == KeyOf[inp]
     IN  /\ ~cacheHas(cache, sanitizedIp)
         /\ ~hasPending(pendingRequests, sanitizedIp)
         /\ sanitizedIp \notin PrivateKeys
         /\ ~circuitAllows(circuitBreaker, now)
         /\ cache' = addToCache(cache, sanitizedIp, Null)
         /\ UNCHANGED <<serverVars, options, pendingRequests, requestQueue, lastRequestTime,
                        circuitBreaker, now, res, waiters>>
         /\ History({Event(sanitizedIp, 0, "direct", 1, Resolved(Null, "open"))}, FALSE, sanitizedIp)

\* apiLookupWithRetry(ip, attempt) -> apiLookup -> checkRateLimit, run to the
\* first suspension point: the rate limiter throws, sleeps or admits
EnterApiLookup(r, ip, attempt) ==
  LET e == rateLimitEntry(now, lastRequestTime)
      w == rateLimitWindow(requestQueue, now, now)
      at(pc, wake) == [pc |-> pc, ip |-> ip, attempt |-> attempt,
                       entered |-> IF pc = "rlsleep" THEN now ELSE 0, wake |-> wake,
                       gate |-> IF attempt = 1 THEN circuitBreaker.state ELSE res[r].gate,
                       sent |-> NullTime]
  IN  IF e.kind = "throw"
        THEN /\ res' = [res EXCEPT ![r] = at("ratelimited", 0)]
             /\ UNCHANGED <<requestQueue, lastRequestTime>>
      ELSE IF e.kind = "sleep"
        THEN /\ res' = [res EXCEPT ![r] = at("rlsleep", now + e.wait)]
             /\ UNCHANGED <<requestQueue, lastRequestTime>>
      ELSE /\ requestQueue' = w.queue
           /\ lastRequestTime' = IF w.admitted THEN now ELSE lastRequestTime
           /\ res' = [res EXCEPT ![r] = at(IF w.admitted THEN "admitted" ELSE "ratelimited", 0)]

\* lines 123-170: the call goes to the upstream and registers its promise
LookupStart(inp) ==
  /\ KeyOf[inp] # NoIp
  /\ LET sanitizedIp == KeyOf[inp]
     IN  /\ ~cacheHas(cache, sanitizedIp)
         /\ ~hasPending(pendingRequests, sanitizedIp)
         /\ sanitizedIp \notin PrivateKeys
         /\ circuitAllows(circuitBreaker, now)
         /\ Cardinality({r \in ResIds : Active(r)}) < workload.inflight
         /\ circuitBreaker' = [circuitBreaker EXCEPT
                                 !.state = IF @ = "OPEN" THEN "HALF_OPEN" ELSE @]
         /\ EnterApiLookup(NewRes, sanitizedIp, 1)
         /\ pendingRequests' = [pendingRequests EXCEPT ![sanitizedIp] = NewRes]
         /\ UNCHANGED <<serverVars, options, cache, now, waiters>>
         /\ History({}, FALSE, NoIp)

Lookup(inp) ==
  \/ LookupInvalid(inp)
  \/ LookupHit(inp)
  \/ LookupJoin(inp)
  \/ LookupPrivate(inp)
  \/ LookupCircuitOpen(inp)
  \/ LookupStart(inp)

(***************************************************************************)
(* The resolution: lookupPromise, apiLookupWithRetry, apiLookup            *)
(***************************************************************************)
\* lines 138-161: what lookupPromise settles to, from what apiLookupWithRetry
\* returned (ok) or threw
\* a catch that throws again
lookupPromiseRethrows(outcome) ==
  IF outcome.ok THEN Resolved(outcome.val, outcome.via) ELSE Rejected(outcome.via)

lookupPromise(outcome) ==
  IF outcome.ok THEN Resolved(outcome.val, outcome.via) ELSE Resolved(Null, outcome.via)

\* a joining call that is answered null
joinerSettlesNull(s) == Resolved(Null, s.via)

\* line 112: the promise of a joining call adopts the settlement of the pending one
joinerSettles(s) == s

Returned(v, via) == [ok |-> TRUE, val |-> v, via |-> via]
Thrown == [ok |-> FALSE, val |-> Null, via |-> "failure"]

\* a pending entry that is left behind
pendingDeleteSkipped(pending, ip) == pending

\* line 164: this.pendingRequests.delete(sanitizedIp)
pendingDelete(pending, ip) == [pending EXCEPT ![ip] = 0]

\* lines 141-169: lookupPromise from the return of apiLookupWithRetry to its
\* settlement, with the cache write and the removal of the pending entry
Settle(r, outcome) ==
  LET ip == res[r].ip
      s == lookupPromise(outcome)
      joined == IF waiters[r] > 0
                  THEN {Event(ip, r, "join", waiters[r], joinerSettles(s))}
                  ELSE {}
  IN  /\ circuitBreaker' = IF outcome.ok THEN onResult(circuitBreaker, outcome.val)
                           ELSE handleApiFailure(circuitBreaker, now)
      /\ cache' = addToCache(cache, ip, IF outcome.ok THEN outcome.val ELSE Null)
      /\ pendingRequests' = pendingDelete(pendingRequests, ip)
      /\ res' = [res EXCEPT ![r] = IdleRes]
      /\ waiters' = [waiters EXCEPT ![r] = 0]
      /\ UNCHANGED <<serverVars, options, requestQueue, lastRequestTime, now>>
      /\ History({Event(ip, r, "start", 1, s)} \cup joined, FALSE, ip)

Pow2(n) == 2 ^ n

\* a delay that does not grow
backoffFlat(attempt) == retryDelay

\* line 185
backoff(attempt) == retryDelay * Pow2(attempt - 1)

\* lines 178-193: the catch of apiLookupWithRetry for an error of the upstream
\* call (not of the rate limiter)
AttemptFailed(r) ==
  IF circuitBreaker.state = "OPEN"
    THEN Settle(r, Returned(Null, "circuit"))
  ELSE IF res[r].attempt < maxRetries
    THEN /\ res' = [res EXCEPT ![r].pc = "retrysleep", ![r].wake = now + backoff(res[r].attempt),
                               ![r].sent = NullTime]
         /\ UNCHANGED <<serverVars, options, cache, pendingRequests, requestQueue, lastRequestTime,
                        circuitBreaker, now, waiters>>
         /\ History({}, FALSE, NoIp)
  ELSE Settle(r, Thrown)

\* a rate limiter's error that is handled like an error of the upstream call
RateLimitedRetried(r) ==
  /\ res[r].pc = "ratelimited"
  /\ AttemptFailed(r)

\* a rate limiter's error that is thrown on to the catch of lookup
RateLimitedCounted(r) ==
  /\ res[r].pc = "ratelimited"
  /\ Settle(r, [ok |-> FALSE, val |-> Null, via |-> "ratelimit"])

\* lines 178-182: the rate limiter's error reaches the catch of apiLookupWithRetry
RateLimited(r) ==
  /\ res[r].pc = "ratelimited"
  /\ Settle(r, Returned(Null, "ratelimit"))

\* lines 279-302: the minimum-spacing sleep of checkRateLimit is over; the
\* window is trimmed against the time read on entry
RateLimitWake(r) ==
  /\ res[r].pc = "rlsleep"
  /\ now >= res[r].wake
  /\ LET w == rateLimitWindow(requestQueue, res[r].entered, now)
     IN  /\ requestQueue' = w.queue
         /\ lastRequestTime' = IF w.admitted THEN now ELSE lastRequestTime
         /\ res' = [res EXCEPT ![r].pc = IF w.admitted THEN "admitted" ELSE "ratelimited",
                               ![r].wake = 0, ![r].entered = 0]
  /\ UNCHANGED <<serverVars, options, cache, pendingRequests, circuitBreaker, now, waiters>>
  /\ History({}, FALSE, NoIp)

\* lines 203-220: apiLookup after checkRateLimit: the abort timer is set and
\* the request is sent
SendRequest(r) ==
  /\ res[r].pc = "admitted"
  /\ res' = [res EXCEPT ![r].pc = "fetch", ![r].wake = now + apiTimeout, ![r].sent = now]
  /\ UNCHANGED <<serverVars, options, cache, pendingRequests, requestQueue, lastRequestTime,
                 circuitBreaker, now, waiters>>
  /\ History({}, FALSE, NoIp)

\* lines 213-226: fetch settles: a network error, or a response whose status
\* is not ok, throws; otherwise the timer is cleared and the body is read
FetchError(r) ==
  /\ res[r].pc = "fetch"
  /\ AttemptFailed(r)

FetchResponse(r) ==
  /\ res[r].pc = "fetch"
  /\ res' = [res EXCEPT ![r].pc = "body", ![r].wake = 0]
  /\ UNCHANGED <<serverVars, options, cache, pendingRequests, requestQueue, lastRequestTime,
                 circuitBreaker, now, waiters>>
  /\ History({}, FALSE, NoIp)

\* lines 206, 253-258: the abort timer fires while fetch is pending
FetchTimeout(r) ==
  /\ res[r].pc = "fetch"
  /\ now >= res[r].wake
  /\ AttemptFailed(r)

\* line 228: response.json() throws
BodyError(r) ==
  /\ res[r].pc = "body"
  /\ AttemptFailed(r)

\* lines 231-251: what apiLookup returns for a parsed body
apiResult(data) ==
  IF data.status = "fail" THEN Null
  ELSE IF ~isValidCoordinate(data.lat, data.lon) THEN Null
  ELSE <<data.lat, data.lon>>

Bodies ==
  {[status |-> "success", lat |-> p[1], lon |-> p[2]] : p \in Payloads}
    \cup {[status |-> "fail", lat |-> 0, lon |-> 0]}

\* lines 228-251: the body is parsed and apiLookup returns
BodyRead(r, data) ==
  /\ res[r].pc = "body"
  /\ Settle(r, Returned(apiResult(data), "response"))

\* lines 188-189: the backoff sleep is over, the next attempt starts
RetryWake(r) ==
  /\ res[r].pc = "retrysleep"
  /\ now >= res[r].wake
  /\ EnterApiLookup(r, res[r].ip, res[r].attempt + 1)
  /\ UNCHANGED <<serverVars, options, cache, pendingRequests, circuitBreaker, now, waiters>>
  /\ History({}, FALSE, NoIp)

(***************************************************************************)
(* The other operations, and time                                          *)
(***************************************************************************)
ClearCache ==
  /\ cache' = <<>>
  /\ requestQueue' = <<>>
  /\ UNCHANGED <<serverVars, options, pendingRequests, lastRequestTime, circuitBreaker, now, res, waiters>>
  /\ History({}, TRUE, NoIp)

ResetCircuitBreaker ==
  /\ circuitBreaker' = [failures |-> 0, state |-> "CLOSED", lastFailureTime |-> NullTime]
  /\ UNCHANGED <<serverVars, options, cache, pendingRequests, requestQueue, lastRequestTime, now, res, waiters>>
  /\ History({}, FALSE, NoIp)

\* A continuation that only waits for the microtask queue runs before the
\* clock moves by a unit, and a timer that is due fires before it does.
Runnable(r) ==
  \/ res[r].pc \in {"ratelimited", "admitted"}
  \/ res[r].pc \in {"rlsleep", "retrysleep", "fetch"} /\ now >= res[r].wake

\* Date.now() moves on
Tick ==
  /\ now < MaxTime
  /\ \A r \in ResIds : ~Runnable(r)
  /\ now' = now + 1
  /\ UNCHANGED <<serverVars, options, cache, pendingRequests, requestQueue, lastRequestTime,
                 circuitBreaker, res, waiters>>
  /\ History({}, FALSE, NoIp)

(***************************************************************************)
(* The server: connections, polling timers, pollDNSLogs                    *)
(***************************************************************************)
\* bounds of the server's model
NumSockets == 2
MaxPolls == 2
MaxEntries == 3

\* null as the value of a timer variable
NoTimer == 0

\* the 2000 ms that pollDNSLogs subtracts from lastPollTime
OverlapBuffer == 2

Sockets == 1..NumSockets
PollIds == 1..MaxPolls
TimerIds == 1..(NumSockets + 1)

\* the defaults of config
DefaultConfig == [pollInterval |-> 2, statsInterval |-> 5, maxProcessedIds |-> 1000]

\* a query-log entry: one client asks for one domain, at most once per unit of time
Entry(t) == [timestamp |-> t, domain |-> "example.com", client |-> "192.168.1.10"]

\* line 187
entryId(entry) == <<entry.timestamp, entry.domain, entry.client>>

EntryIds == {entryId(Entry(t)) : t \in StartTime..MaxTime}

IdlePoll == [pc |-> "idle", rest |-> <<>>]

\* the state after the module has been loaded (lines 105-112), with no query logged
ServerQuiet ==
  /\ sockets = [ws \in Sockets |-> "none"]
  /\ activeConnections = {}
  /\ dnsPollingInterval = NoTimer
  /\ statsPollingInterval = NoTimer
  /\ timers = {}
  /\ processedIds = <<>>
  /\ lastPollTime = StartTime
  /\ polls = [p \in PollIds |-> IdlePoll]
  /\ queryLog = {}
  /\ processed = [id \in EntryIds |-> 0]

\* setInterval returns a timer that is none of the live ones
NewTimer(kind) ==
  CHOOSE i \in TimerIds :
    /\ \A t \in timers : t.kind = kind => t.id # i
    /\ \A j \in 1..(i - 1) : \E t \in timers : t.kind = kind /\ t.id = j

FreePoll == CHOOSE p \in PollIds : polls[p].pc = "idle" /\ \A q \in 1..(p - 1) : polls[q].pc # "idle"

\* a call of pollDNSLogs up to its await of getQueryLog (line 164)
callPollDNSLogs ==
  /\ Cardinality({p \in PollIds : polls[p].pc # "idle"}) < workload.polls
  /\ polls' = [polls EXCEPT ![FreePoll] = [pc |-> "fetch", rest |-> <<>>]]

\* lines 115-142, with activeConnections as the handler has left it
startPolling(connections) ==
  IF dnsPollingInterval # NoTimer \/ connections = {}
    THEN UNCHANGED <<dnsPollingInterval, statsPollingInterval, timers, polls>>
    ELSE /\ dnsPollingInterval' = NewTimer("dns")
         /\ statsPollingInterval' = NewTimer("stats")
         /\ timers' = timers \cup
              { [kind |-> "dns", id |-> NewTimer("dns"), due |-> now + config.pollInterval],
                [kind |-> "stats", id |-> NewTimer("stats"), due |-> now + config.statsInterval] }
         /\ callPollDNSLogs

\* lines 144-158, with activeConnections as the handler has left it
stopPolling(connections) ==
  IF connections # {}
    THEN UNCHANGED <<dnsPollingInterval, statsPollingInterval, timers>>
    ELSE /\ dnsPollingInterval' = NoTimer
         /\ statsPollingInterval' = NoTimer
         /\ timers' = {t \in timers :
                         /\ ~(t.kind = "dns" /\ t.id = dnsPollingInterval)
                         /\ ~(t.kind = "stats" /\ t.id = statsPollingInterval)}

\* lines 382-410: wss.on('connection')
SocketConnection(ws) ==
  /\ sockets[ws] = "none"
  /\ sockets' = [sockets EXCEPT ![ws] = "open"]
  /\ activeConnections' = activeConnections \cup {ws}
  /\ startPolling(activeConnections')
  /\ UNCHANGED <<config, processedIds, lastPollTime, queryLog, processed, now>>
  /\ UNCHANGED geoVars

\* a close handler that leaves the timers alone
SocketCloseNoStop(ws) ==
  /\ sockets[ws] \in {"open", "errored"}
  /\ sockets' = [sockets EXCEPT ![ws] = "none"]
  /\ activeConnections' = activeConnections \ {ws}
  /\ UNCHANGED <<dnsPollingInterval, statsPollingInterval, timers>>
  /\ UNCHANGED <<config, processedIds, lastPollTime, polls, queryLog, processed, now>>
  /\ UNCHANGED geoVars

\* lines 389-393: ws.on('close'), emitted once per socket, after an error too
SocketClose(ws) ==
  /\ sockets[ws] \in {"open", "errored"}
  /\ sockets' = [sockets EXCEPT ![ws] = "none"]
  /\ activeConnections' = activeConnections \ {ws}
  /\ stopPolling(activeConnections')
  /\ UNCHANGED <<config, processedIds, lastPollTime, polls, queryLog, processed, now>>
  /\ UNCHANGED geoVars

\* lines 395-399: ws.on('error')
SocketError(ws) ==
  /\ sockets[ws] = "open"
  /\ sockets' = [sockets EXCEPT ![ws] = "errored"]
  /\ activeConnections' = activeConnections \ {ws}
  /\ stopPolling(activeConnections')
  /\ UNCHANGED <<config, processedIds, lastPollTime, polls, queryLog, processed, now>>
  /\ UNCHANGED geoVars

\* lines 121-128: the DNS interval runs: it calls pollDNSLogs and is due again
\* one interval later
DnsTimerFire ==
  /\ \E t \in timers :
       /\ t.kind = "dns"
       /\ t.due <= now
       /\ timers' = (timers \ {t}) \cup {[t EXCEPT !.due = now + config.pollInterval]}
  /\ callPollDNSLogs
  /\ UNCHANGED <<config, sockets, activeConnections, dnsPollingInterval, statsPollingInterval,
                 processedIds, lastPollTime, queryLog, processed, now>>
  /\ UNCHANGED geoVars

\* lines 131-137, 215-221: the stats interval runs; pollStats keeps no state
StatsTimerFire ==
  /\ \E t \in timers :
       /\ t.kind = "stats"
       /\ t.due <= now
       /\ timers' = (timers \ {t}) \cup {[t EXCEPT !.due = now + config.statsInterval]}
  /\ UNCHANGED <<config, sockets, activeConnections, dnsPollingInterval, statsPollingInterval,
                 processedIds, lastPollTime, polls, queryLog, processed, now>>
  /\ UNCHANGED geoVars

\* what adguardClient.getQueryLog resolves to: the entries logged, newest first
RECURSIVE getQueryLog(_)
getQueryLog(entries) ==
  IF entries = {} THEN <<>>
  ELSE LET e == CHOOSE x \in entries : \A y \in entries : y.timestamp <= x.timestamp
       IN  <<e>> \o getQueryLog(entries \ {e})

\* lines 189-192: the entries at the head of the list that are skipped
RECURSIVE skipDuplicates(_, _)
skipDuplicates(ids, entries) ==
  IF entries # <<>> /\ entryId(Head(entries)) \in Range(ids)
    THEN skipDuplicates(ids, Tail(entries))
    ELSE entries

\* lines 195-200
addProcessedId(ids, id) ==
  LET added == Append(ids, id)
  IN  IF Len(added) > config.maxProcessedIds THEN Tail(added) ELSE added

\* lines 185-205: the loop of pollDNSLogs over the entries left, up to its
\* next await of processDNSEntry or to its end
pollLoop(p, entries) ==
  LET todo == skipDuplicates(processedIds, entries)
  IN  IF todo = <<>>
        THEN /\ polls' = [polls EXCEPT ![p] = IdlePoll]
             /\ UNCHANGED <<processedIds, processed>>
        ELSE LET id == entryId(Head(todo))
             IN  /\ processedIds' = addProcessedId(processedIds, id)
                 /\ processed' = IF "processed" \notin track THEN processed
                                  ELSE [processed EXCEPT ![id] = IF @ < 2 THEN @ + 1 ELSE 2]
                 /\ polls' = [polls EXCEPT ![p] = [pc |-> "entry", rest |-> Tail(todo)]]

\* lines 164-203: getQueryLog has resolved
PollResponse(p) ==
  /\ polls[p].pc = "fetch"
  /\ LET logs == getQueryLog(queryLog)
         cutoffTime == lastPollTime - OverlapBuffer
         newEntries == SelectSeq(logs, LAMBDA entry : entry.timestamp > cutoffTime)
     IN  pollLoop(p, newEntries)
  /\ lastPollTime' = now
  /\ UNCHANGED <<config, sockets, activeConnections, dnsPollingInterval, statsPollingInterval,
                 timers, queryLog, now>>
  /\ UNCHANGED geoVars

\* line 164: getQueryLog has rejected; the caller of pollDNSLogs logs the error
PollError(p) ==
  /\ polls[p].pc = "fetch"
  /\ polls' = [polls EXCEPT ![p] = IdlePoll]
  /\ UNCHANGED <<config, sockets, activeConnections, dnsPollingInterval, statsPollingInterval,
                 timers, processedIds, lastPollTime, queryLog, processed, now>>
  /\ UNCHANGED geoVars

\* lines 203-205: processDNSEntry (lines 226-360) has returned, after its
\* awaits of resolveCNAME and geoService.lookup
EntryProcessed(p) ==
  /\ polls[p].pc = "entry"
  /\ pollLoop(p, polls[p].rest)
  /\ UNCHANGED <<config, sockets, activeConnections, dnsPollingInterval, statsPollingInterval,
                 timers, lastPollTime, queryLog, now>>
  /\ UNCHANGED geoVars

\* AdGuard Home logs a query
QueryLogged ==
  /\ Cardinality(queryLog) < workload.entries
  /\ Entry(now) \notin queryLog
  /\ queryLog' = queryLog \cup {Entry(now)}
  /\ UNCHANGED <<config, sockets, activeConnections, dnsPollingInterval, statsPollingInterval,
                 timers, processedIds, lastPollTime, polls, processed, now>>
  /\ UNCHANGED geoVars

(***************************************************************************)
(* Specification                                                           *)
(***************************************************************************)
Options ==
  [maxCacheSize |-> 1, maxRetries |-> 2, retryDelay |-> 1, apiTimeout |-> 2,
   maxRequestsPerMinute |-> 2, minRequestDelay |-> 3]

\* the keys the callers of this run can look up
WorkKeys == {KeyOf[i] : i \in workload.inputs} \ {NoIp}

NoHistory ==
  /\ settled = {}
  /\ admissions = requestQueue
  /\ rejected = {}
  /\ known = [k \in WorkKeys \cup MapKeys(cache) \cup {NoIp} |-> None]
  /\ lru = [order |-> <<>>, evicted |-> NoIp, promoted |-> {}]

Quiet ==
  /\ pendingRequests = [k \in WorkKeys |-> 0]
  /\ res = [r \in ResIds |-> IdleRes]
  /\ waiters = [r \in ResIds |-> 0]
  /\ now = StartTime
  /\ ServerQuiet

\* the state the constructor leaves (lines 32-60), at some time after the epoch
InitFresh ==
  /\ cache = <<>>
  /\ requestQueue = <<>>
  /\ lastRequestTime = 0
  /\ circuitBreaker = [failures |-> 0, state |-> "CLOSED", lastFailureTime |-> NullTime]
  /\ Quiet
  /\ NoHistory

\* A service that has run: four resolutions have failed since the last
\* success, the last of them after two attempts, the second admitted and
\* failed `ago` units before now; the cache has been cleared since.
InitWarm(ago) ==
  /\ cache = <<>>
  /\ requestQueue = <<>>
  /\ lastRequestTime = StartTime - ago
  /\ circuitBreaker = [failures |-> maxFailures - 1, state |-> "CLOSED",
                       lastFailureTime |-> StartTime - ago]
  /\ Quiet
  /\ NoHistory

\* A service whose breaker tripped `ago` units before now on the failure of a
\* resolution, and whose cache has been cleared since.
InitOpen(ago) ==
  /\ cache = <<>>
  /\ requestQueue = <<>>
  /\ lastRequestTime = StartTime - ago
  /\ circuitBreaker = [failures |-> maxFailures, state |-> "OPEN",
                       lastFailureTime |-> StartTime - ago]
  /\ Quiet
  /\ NoHistory

\* A service that answered one lookup almost a window ago and a lookup of
\* 9.9.9.9 one unit before now; both requests are still in the window and the
\* second answer is in the cache.
InitAged ==
  /\ cache = <<<<KeyOf[CHOOSE i \in MorePublicInputs : TRUE], <<37, -122>>>>>>
  /\ requestQueue = <<StartTime - (requestWindow - 1), StartTime - 1>>
  /\ lastRequestTime = StartTime - 1
  /\ circuitBreaker = [failures |-> 0, state |-> "CLOSED", lastFailureTime |-> NullTime]
  /\ Quiet
  /\ NoHistory

\* A service whose breaker tripped `ago` units before now while a second
\* resolution was in flight; that one has returned a coordinate since, which
\* set the failure count to 0 (line 144) and left the state OPEN; the cache
\* has been cleared since.
InitOpenReset(ago) ==
  /\ cache = <<>>
  /\ requestQueue = <<>>
  /\ lastRequestTime = StartTime - ago
  /\ circuitBreaker = [failures |-> 0, state |-> "OPEN", lastFailureTime |-> StartTime - ago]
  /\ Quiet
  /\ NoHistory

Scenarios ==
  \/ InitFresh
  \/ InitWarm(minRequestDelay)
  \/ InitOpen(resetTimeout - 1)

\* concurrent callers of two public addresses
Init ==
  /\ options = Options
  /\ workload = [inputs |-> PublicInputs \cup OtherInputs, inflight |-> NumRes]
  /\ track = {}
  /\ config = DefaultConfig
  /\ Scenarios

\* the same from a new service and from one with the breaker open, with the
\* history of the settled values kept
InitKnown ==
  /\ options = Options
  /\ workload = [inputs |-> PublicInputs \cup OtherInputs, inflight |-> NumRes]
  /\ track = {"known"}
  /\ config = DefaultConfig
  /\ (InitFresh \/ InitOpen(resetTimeout - 1))

\* callers of three public addresses, one resolution at a time, a cache of
\* two entries, with the history of the reference cache kept
InitLru ==
  /\ options = [Options EXCEPT !.maxCacheSize = 2]
  /\ workload = [inputs |-> PublicInputs \cup MorePublicInputs \cup OtherInputs,
                 inflight |-> 1]
  /\ track = {"lru"}
  /\ config = DefaultConfig
  /\ Scenarios

\* concurrent callers of services of four configurations: the one above; one
\* that gives up after the first attempt, its breaker open for longer than the
\* reset timeout; one that admits three requests per window, two of them made;
\* a new one with the default ratio of minRequestDelay to retryDelay.
\* The history of the admissions is kept.
InitConfigs ==
  /\ workload = [inputs |-> PublicInputs \cup OtherInputs, inflight |-> NumRes]
  /\ track = {"admissions"}
  /\ config = DefaultConfig
  /\ \/ options = Options /\ Scenarios
     \/ options = [Options EXCEPT !.maxRetries = 1] /\ InitOpen(resetTimeout + 1)
     \/ options = [Options EXCEPT !.maxRequestsPerMinute = 3] /\ InitAged
     \/ options = [Options EXCEPT !.minRequestDelay = 4] /\ InitFresh

\* callers, one resolution at a time, of the addresses of the reserved ranges
\* and of the others
InitClassify ==
  /\ options = Options
  /\ workload = [inputs |-> QuadInputs \cup PublicInputs \cup OtherInputs, inflight |-> 1]
  /\ track = {}
  /\ config = DefaultConfig
  /\ Scenarios

\* callers, one resolution at a time, of the services above and of one whose
\* breaker has been open for longer than the reset timeout, its failure count
\* set to 0 by a success after the trip
InitHalfOpen ==
  /\ options = Options
  /\ workload = [inputs |-> PublicInputs \cup OtherInputs, inflight |-> 1]
  /\ track = {}
  /\ config = DefaultConfig
  /\ (Scenarios \/ InitOpenReset(resetTimeout + 1))

\* callers, one resolution at a time, of a service with a cache of two entries
\* whose breaker is open; the history of the entries written at the open
\* breaker is kept
InitRejected ==
  /\ options = [Options EXCEPT !.maxCacheSize = 2]
  /\ workload = [inputs |-> PublicInputs \cup OtherInputs, inflight |-> 1]
  /\ track = {"rejected"}
  /\ config = DefaultConfig
  /\ InitOpen(resetTimeout - 1)

\* callers, one resolution at a time, of strings that are no plain address
InitFailSafe ==
  /\ options = Options
  /\ workload = [inputs |-> AmbiguousInputs \cup OtherInputs, inflight |-> 1]
  /\ track = {}
  /\ config = DefaultConfig
  /\ Scenarios

\* callers, one resolution at a time and with every kind of invalid argument,
\* of a service that makes up to three attempts and spaces its requests by no
\* more than the first retry delay
InitRetry ==
  /\ options = [Options EXCEPT !.maxRetries = 3, !.minRequestDelay = 1,
                               !.maxRequestsPerMinute = 3]
  /\ workload = [inputs |-> PublicInputs \cup OtherInputs \cup InvalidInputs, inflight |-> 1]
  /\ track = {}
  /\ config = DefaultConfig
  /\ Scenarios

\* the server, polling every 2 s, the stats every 3 s, one poll at a time,
\* one query logged
InitConnections ==
  /\ options = Options
  /\ workload = [inputs |-> {}, inflight |-> 0, polls |-> 1, entries |-> 1]
  /\ track = {}
  /\ config = [pollInterval |-> 2, statsInterval |-> 3, maxProcessedIds |-> MaxEntries]
  /\ InitFresh

\* the same with polls that overlap and several queries logged, with a set
\* of processed ids that holds one id, or all the ids there can be, and the
\* history of the calls of processDNSEntry kept
InitServer ==
  /\ options = Options
  /\ workload = [inputs |-> {}, inflight |-> 0, polls |-> MaxPolls, entries |-> MaxEntries]
  /\ track = {"processed"}
  /\ config \in {[pollInterval |-> 2, statsInterval |-> 3, maxProcessedIds |-> m] :
                   m \in {1, MaxEntries}}
  /\ InitFresh

Next ==
  \/ \E inp \in workload.inputs : Lookup(inp)
  \/ \E r \in ResIds :
       \/ RateLimited(r)
       \/ RateLimitWake(r)
       \/ SendRequest(r)
       \/ FetchError(r)
       \/ FetchResponse(r)
       \/ FetchTimeout(r)
       \/ BodyError(r)
       \/ \E data \in Bodies : BodyRead(r, data)
       \/ RetryWake(r)
  \/ ClearCache
  \/ ResetCircuitBreaker
  \/ Tick

Spec == Init /\ [][Next]_vars

SpecKnown == InitKnown /\ [][Next]_vars

SpecLru == InitLru /\ [][Next]_vars

SpecConfigs == InitConfigs /\ [][Next]_vars

SpecRetry == InitRetry /\ [][Next]_vars

SpecClassify == InitClassify /\ [][Next]_vars

SpecFailSafe == InitFailSafe /\ [][Next]_vars

SpecRejected == InitRejected /\ [][Next]_vars

SpecHalfOpen == InitHalfOpen /\ [][Next]_vars

ServerNext ==
  \/ \E ws \in Sockets :
       \/ SocketConnection(ws)
       \/ SocketClose(ws)
       \/ SocketError(ws)
  \/ DnsTimerFire
  \/ StatsTimerFire
  \/ \E p \in PollIds :
       \/ PollResponse(p)
       \/ PollError(p)
       \/ EntryProcessed(p)
  \/ QueryLogged
  \/ Tick

SpecServer == InitServer /\ [][ServerNext]_vars

SpecConnections == InitConnections /\ [][ServerNext]_vars

\* What the event loop guarantees: the clock moves on however often the
\* callers call in between (strong fairness), a timer that is due
\* fires (the sleeps of checkRateLimit and of the retry, the abort timer of the
\* request) and a continuation in the microtask queue runs.  Nothing makes the
\* callers call, nor the network answer.
Scheduling ==
  /\ SF_vars(Tick)
  /\ \A r \in ResIds :
       /\ WF_vars(RateLimited(r))
       /\ WF_vars(RateLimitWake(r))
       /\ WF_vars(SendRequest(r))
       /\ WF_vars(FetchTimeout(r))
       /\ WF_vars(RetryWake(r))

SpecLive == Init /\ [][Next]_vars /\ Scheduling

(***************************************************************************)
(* Properties                                                              *)
(***************************************************************************)
InFlight(k) == {r \in ResIds : Active(r) /\ res[r].ip = k}

PrivateExample == <<"1", "9", "2", ".", "1", "6", "8", ".", "1", ".", "5">>

CacheOrder == [i \in DOMAIN cache |-> cache[i][1]]

\* C1: in every reachable state each key has at most one resolution (the
\* apiLookupWithRetry chain a lookup started) in flight.
C1_OneResolutionPerKey ==
  \A k \in Keys : Cardinality(InFlight(k)) <= 1

\* two resolutions for two keys are in flight and a second caller has joined one
C1_Witness ==
  \E r, q \in ResIds : r # q /\ Active(r) /\ Active(q) /\ waiters[r] > 0

\* C2: whenever a lookup of a key settles, every lookup of that key that was
\* invoked while the resolution was pending settles in the same step and to
\* the same value; none is left behind on a resolution of the key.
C2_JoinersSameValue ==
  \A e \in settled :
    /\ InFlight(e.ip) = {}
    /\ \A f \in settled : f.ip = e.ip /\ f.val = e.val /\ f.how = e.how
    /\ e.role = "join" => \E f \in settled : f.role = "start" /\ f.res = e.res

\* a joining caller and the starting caller received the same coordinate
C2_Witness ==
  \E e, f \in settled :
    e.role = "join" /\ f.role = "start" /\ e.n >= 1 /\ e.val # Null /\ e.val = f.val

\* C3: a lookup of a key whose last lookup settled to v, with no eviction of
\* the key and no clearCache since, settles to v, follows no resolution and
\* starts none.
C3_RepeatLookupSameValue ==
  [][/\ \A e \in settled' : known[e.ip] # None => e.val = known[e.ip] /\ e.res = 0
     /\ \A r \in ResIds : ~Active(r) /\ res'[r].pc # "idle" => known[res'[r].ip] = None]_vars

\* a repeated lookup was answered from the cache with the coordinate
C3_Witness ==
  \E e \in settled : e.via = "hit" /\ e.val # Null /\ known[e.ip] = e.val

\* C4: every lookup promise that settles is resolved, with null or a
\* coordinate in range; none is rejected.
C4_LookupNeverRejects ==
  \A e \in settled :
    /\ e.how = "resolved"
    /\ e.val = Null \/ isValidCoordinate(e.val[1], e.val[2])

\* a resolution whose retries were used up settled to null
C4_Witness ==
  \E e \in settled : e.via = "failure" /\ e.val = Null /\ e.how = "resolved"

\* C5: the cache never holds more than maxCacheSize entries.
C5_CacheBounded == Len(cache) <= maxCacheSize

\* the last step wrote to the full cache and evicted a key
C5_Witness == lru.evicted # NoIp /\ Len(cache) = maxCacheSize

\* C6: the keys of the cache, in the order of the Map, are the keys of the
\* reference LRU cache in its order, oldest use first: a write to the full
\* cache drops exactly the least recently used key, a hit makes its key the
\* most recently used.
C6_CacheIsLru == CacheOrder = lru.order

\* a write evicted a key while a key that a hit had moved up stayed
C6_Witness ==
  /\ lru.evicted # NoIp
  /\ Len(cache) = maxCacheSize
  /\ \E k \in lru.promoted : MapHas(cache, k)

\* C7: a lookup of 192.168.1.5 settles to null without a resolution, and no
\* resolution is ever in flight or pending for it.
C7_PrivateNoUpstream ==
  /\ \A e \in settled : e.ip = PrivateExample => e.val = Null /\ e.res = 0 /\ e.role = "direct"
  /\ InFlight(PrivateExample) = {}
  /\ pendingRequests[PrivateExample] = 0

\* the private address was looked up while the breaker was open and the
\* rate-limit window full
C7_Witness ==
  /\ \E e \in settled : e.ip = PrivateExample /\ e.val = Null
  /\ circuitBreaker.state = "OPEN"
  /\ Len(requestQueue) >= maxRequestsPerMinute

C9_RateLimitNotCached ==
  \A e \in settled : e.via = "ratelimit" => e.val = Null /\ ~MapHas(cache, e.ip)

\* C10: a resolution sends its request only from the admission of
\* checkRateLimit, one request per admission, and each admission has written
\* its time to lastRequestTime and to the end of the window.
C10_RequestAfterAdmission ==
  [][\A r \in ResIds :
       /\ res'[r].pc = "fetch" /\ res[r].pc # "fetch" => res[r].pc = "admitted"
       /\ res'[r].pc = "admitted" /\ res[r].pc # "admitted" =>
            /\ lastRequestTime' = now'
            /\ requestQueue' # <<>>
            /\ requestQueue'[Len(requestQueue')] = now']_vars

\* the request of a retry attempt is in flight
C10_Witness ==
  \E r \in ResIds : res[r].pc = "fetch" /\ res[r].attempt = 2

Admits(r) == res'[r].pc = "admitted" /\ res[r].pc # "admitted"

EntersRateLimit(r) ==
  /\ res[r].pc \in {"idle", "retrysleep"}
  /\ res'[r].pc \in {"rlsleep", "ratelimited", "admitted"}

Starts(r) == res[r].pc = "idle" /\ res'[r].pc # "idle"

Upstream == {r \in ResIds : res[r].pc \in {"admitted", "fetch", "body"}}

Probes == {r \in Upstream : res[r].gate \in {"OPEN", "HALF_OPEN"}}

\* C11: any two requests the rate limiter admitted have admission times at
\* least minRequestDelay apart.
C11_AdmissionsSpaced ==
  \A i, j \in DOMAIN admissions :
    i < j => admissions[j] - admissions[i] >= minRequestDelay

\* C12: a resolution that enters checkRateLimit less than minRequestDelay after
\* the last admission sleeps for the remainder when that is at most 2000 ms
\* and otherwise fails at once, and a failed one settles without a request;
\* one that enters later does not sleep.
C12_MinimumSpacingEntry ==
  [][\A r \in ResIds :
       /\ EntersRateLimit(r) =>
            LET since == now - lastRequestTime
                remaining == minRequestDelay - since
            IN  /\ since < minRequestDelay /\ remaining <= MaxRateLimitWait =>
                     res'[r].pc = "rlsleep" /\ res'[r].wake = now + remaining
                /\ since < minRequestDelay /\ remaining > MaxRateLimitWait =>
                     res'[r].pc = "ratelimited"
                /\ since >= minRequestDelay => res'[r].pc # "rlsleep"
       /\ res[r].pc = "ratelimited" /\ res'[r] # res[r] => res'[r].pc = "idle"]_vars

\* a resolution sleeps for a remainder of exactly 2000 ms
C12_Witness ==
  \E r \in ResIds :
    /\ res[r].pc = "rlsleep"
    /\ res[r].wake - res[r].entered = MaxRateLimitWait
    /\ res[r].entered - lastRequestTime < minRequestDelay

\* C13: of the requests admitted, no more than maxRequestsPerMinute lie in any
\* interval of 60,000 ms that ends at an admission.
C13_WindowCap ==
  \A i \in DOMAIN admissions :
    Cardinality({j \in DOMAIN admissions :
                   /\ admissions[j] <= admissions[i]
                   /\ admissions[j] > admissions[i] - requestWindow})
      <= maxRequestsPerMinute

\* C14: after an admission requestQueue holds no time more than 60,000 ms
\* before the admission.
C14_WindowTrimmed ==
  [][(\E r \in ResIds : Admits(r)) =>
       \A i \in DOMAIN requestQueue' : now' - requestQueue'[i] <= requestWindow]_vars

\* C15: a closed breaker has counted fewer than maxFailures failures, and a
\* step that brings the count to maxFailures or more leaves the breaker OPEN.
C15_TripsAtMaxFailures ==
  /\ [](circuitBreaker.state = "CLOSED" => circuitBreaker.failures < maxFailures)
  /\ [][/\ circuitBreaker'.failures > circuitBreaker.failures
        /\ circuitBreaker'.failures >= maxFailures
        => circuitBreaker'.state = "OPEN"]_vars

\* the failure of a resolution has just brought the count to maxFailures
C15_Witness ==
  /\ circuitBreaker.state = "OPEN"
  /\ circuitBreaker.failures = maxFailures
  /\ circuitBreaker.lastFailureTime = now
  /\ \E e \in settled : e.via = "failure"

\* C16: while the breaker is OPEN and no more than resetTimeout has elapsed
\* since lastFailureTime, no lookup starts a resolution, and a lookup of a
\* public key that is neither cached nor pending returns null.
C16_OpenRejects ==
  [][/\ circuitBreaker.state = "OPEN"
     /\ now - TimeOf(circuitBreaker.lastFailureTime) <= resetTimeout
     => /\ \A r \in ResIds : ~Starts(r)
        /\ \A e \in settled' :
             /\ e.role = "direct"
             /\ e.ip \in Keys \ PrivateKeys
             /\ ~MapHas(cache, e.ip)
             => e.val = Null /\ e.res = 0]_vars

\* a lookup was rejected exactly resetTimeout after the last failure
C16_Witness ==
  /\ \E e \in settled : e.via = "open" /\ e.val = Null
  /\ circuitBreaker.state = "OPEN"
  /\ now - circuitBreaker.lastFailureTime = resetTimeout

\* C17: lastFailureTime is set whenever the breaker is OPEN, and a step that
\* takes the breaker out of OPEN either starts a resolution more than
\* resetTimeout after lastFailureTime and leaves it HALF_OPEN, or is
\* resetCircuitBreaker and leaves it CLOSED.
C17_LeavesOpen ==
  /\ [](circuitBreaker.state = "OPEN" => circuitBreaker.lastFailureTime # NullTime)
  /\ [][circuitBreaker.state = "OPEN" /\ circuitBreaker'.state # "OPEN" =>
          \/ /\ circuitBreaker'.state = "HALF_OPEN"
             /\ now - circuitBreaker.lastFailureTime > resetTimeout
             /\ \E r \in ResIds : Starts(r)
          \/ /\ circuitBreaker' = [failures |-> 0, state |-> "CLOSED",
                                   lastFailureTime |-> NullTime]
             /\ res' = res /\ settled' = {}]_vars

\* a lookup made just after the reset timeout has its resolution in flight
C17_Witness ==
  /\ circuitBreaker.state = "HALF_OPEN"
  /\ now - circuitBreaker.lastFailureTime = resetTimeout + 1
  /\ \E r \in ResIds : Active(r)

\* C18: a resolution that returns a coordinate sets the failure count to 0 and
\* closes a HALF_OPEN breaker, and the success of a resolution that a lookup
\* started from the OPEN breaker after the reset timeout leaves the breaker
\* CLOSED.
C18_SuccessCloses ==
  [][\A e \in settled' :
       e.role = "start" /\ e.val # Null =>
         /\ circuitBreaker'.failures = 0
         /\ circuitBreaker.state = "HALF_OPEN" => circuitBreaker'.state = "CLOSED"
         /\ res[e.res].gate = "OPEN" => circuitBreaker'.state = "CLOSED"]_vars

\* C19: while the breaker is HALF_OPEN at most one of the resolutions that
\* came through its gate when it was OPEN or HALF_OPEN has a request admitted
\* or in flight.
C19_SingleProbe ==
  circuitBreaker.state = "HALF_OPEN" => Cardinality(Probes) <= 1

\* C20: a response that is a soft failure or carries coordinates out of range
\* ends a resolution only at its last attempt, and then adds one to the
\* failure count and leaves a null cache entry.
C20_SoftFailureCounted ==
  [][\A e \in settled' :
       e.role = "start" /\ e.via = "response" /\ e.val = Null =>
         /\ res[e.res].attempt = maxRetries
         /\ circuitBreaker'.failures = circuitBreaker.failures + 1
         /\ MapHas(cache', e.ip) /\ MapGet(cache', e.ip) = Null]_vars

\* C21: the settlement of a resolution whose last attempt failed in the
\* upstream call adds one to the failure count and sets lastFailureTime to the
\* time of the failure, whatever the state of the breaker.
C21_FailureCountedInAnyState ==
  [][\A e \in settled' :
       e.role = "start" /\ e.via \in {"failure", "circuit"} =>
         /\ circuitBreaker'.failures = circuitBreaker.failures + 1
         /\ circuitBreaker'.lastFailureTime = now]_vars

\* C22: a resolution that ends because its attempts all failed in the upstream
\* call has made 1 + maxRetries attempts.
C22_AttemptsOnePlusRetries ==
  [][\A e \in settled' :
       e.role = "start" /\ e.via = "failure" => res[e.res].attempt = 1 + maxRetries]_vars

\* C24: a resolution to which checkRateLimit has thrown, in any attempt, does
\* nothing but settle to null, in the same instant, with no sleep and no
\* further request.
C24_RateLimitNotRetried ==
  [][\A r \in ResIds :
       res[r].pc = "ratelimited" /\ res'[r] # res[r] =>
         /\ res'[r].pc = "idle"
         /\ now' = now
         /\ \E e \in settled' :
              e.res = r /\ e.role = "start" /\ e.via = "ratelimit" /\ e.val = Null]_vars

\* the rate limiter has thrown to the second attempt of a resolution
C24_Witness ==
  \E r \in ResIds : res[r].pc = "ratelimited" /\ res[r].attempt = 2

\* C26: no attempt is in flight, waiting for the response or for its body,
\* longer than apiTimeout after its request was sent.
C26_AttemptBounded ==
  \A r \in ResIds :
    res[r].pc \in {"fetch", "body"} => now - res[r].sent <= apiTimeout

\* C29: a step that empties the cache leaves the rate limiter's window and
\* last-request time, the breaker and the pending map as they were.
C29_ClearCacheFrame ==
  [][cache # <<>> /\ cache' = <<>> =>
       /\ requestQueue' = requestQueue
       /\ lastRequestTime' = lastRequestTime
       /\ circuitBreaker' = circuitBreaker
       /\ pendingRequests' = pendingRequests]_vars

\* C23: the sleep a resolution starts after its n-th failed attempt, before
\* its n-th retry, lasts retryDelay * 2^(n-1), and the retry starts when the
\* sleep is over, not before.
C23_BackoffDoubles ==
  [][\A r \in ResIds :
       /\ res'[r].pc = "retrysleep" /\ res[r].pc # "retrysleep" =>
            /\ res'[r].attempt = res[r].attempt
            /\ res'[r].wake - now' = retryDelay * 2 ^ (res[r].attempt - 1)
       /\ res[r].pc = "retrysleep" /\ res'[r].pc # "retrysleep" =>
            /\ res'[r].attempt = res[r].attempt + 1
            /\ now = res[r].wake]_vars

\* a resolution sleeps before its second retry, twice as long as before the first
C23_Witness ==
  \E r \in ResIds :
    /\ res[r].pc = "retrysleep"
    /\ res[r].attempt = 2
    /\ res[r].wake = now + 2 * retryDelay

\* C25: when a single resolution has made requests, a retry of it that is
\* within the maxRetries attempts is not ended by the rate limiter: the next
\* attempt is made and its answer is what the lookup returns.
C25_RetryReachesUpstream ==
  [][\A e \in settled' :
       /\ e.role = "start"
       /\ res[e.res].attempt > 1
       /\ res[e.res].attempt <= maxRetries
       /\ Len(admissions) = 1
       => e.via # "ratelimit"]_vars

\* the clock of the model has reached its last value with a timer still to fire
HorizonReached ==
  /\ now = MaxTime
  /\ \E r \in ResIds : res[r].pc \in {"rlsleep", "retrysleep", "fetch"} /\ res[r].wake > now

\* C27: when timers fire, a key that is in pendingRequests is removed from it
\* later on, with the settlement of its lookups.
C27_PendingRemoved ==
  \A k \in Keys :
    (k \in DOMAIN pendingRequests /\ pendingRequests[k] # 0)
      ~> (k \notin DOMAIN pendingRequests \/ pendingRequests[k] = 0 \/ HorizonReached)

\* C28: an argument that is not a string, is empty, is longer than 45
\* characters or consists of characters the sanitizer removes has no key, and
\* a lookup without a key returns null, starts nothing, and leaves the cache,
\* the pending map, the rate limiter and the breaker as they were.
C28_InvalidInputFrame ==
  /\ [](\A i \in workload.inputs :
          \/ i.kind # "string"
          \/ Len(i.text) = 0
          \/ Len(i.text) > MaxIpLength
          \/ \A j \in DOMAIN i.text : i.text[j] \in {" ", "!", "?"}
          => KeyOf[i] = NoIp)
  /\ [][\A e \in settled' :
          e.ip = NoIp =>
            /\ e.val = Null /\ e.how = "resolved" /\ e.res = 0
            /\ UNCHANGED <<cache, pendingRequests, requestQueue, lastRequestTime,
                           circuitBreaker, res, waiters>>]_vars

\* an invalid argument was looked up while a resolution was in flight, the
\* cache held an entry and the window a request
C28_Witness ==
  /\ \E e \in settled : e.via = "invalid" /\ e.ip = NoIp
  /\ \E r \in ResIds : Active(r)
  /\ cache # <<>>
  /\ requestQueue # <<>>

\* the octets of a key written as a dotted quad
Octets(k) ==
  LET parts == split(k, ".") IN [i \in DOMAIN parts |-> parseInt(parts[i])]

\* 198.18.0.0/15, 100.64.0.0/10, 172.16.0.0/12, 169.254.0.0/16 and 224.0.0.0/4
\* and above, as sets of addresses
InNamedRange(o) ==
  \/ o[1] = 198 /\ o[2] \in 18..19
  \/ o[1] = 100 /\ o[2] \in 64..127
  \/ o[1] = 172 /\ o[2] \in 16..31
  \/ o[1] = 169 /\ o[2] = 254
  \/ o[1] >= 224

\* C30: every dotted quad of 198.18.0.0/15, 100.64.0.0/10, 172.16.0.0/12,
\* 169.254.0.0/16 or with first octet >= 224 is classified private: its lookup
\* is answered null by the private filter and no resolution is started for it.
C30_ReservedQuadsPrivate ==
  /\ \A r \in ResIds : Active(r) => ~InNamedRange(Octets(res[r].ip))
  /\ \A e \in settled :
       e.ip # NoIp /\ includes(e.ip, ".") /\ InNamedRange(Octets(e.ip)) =>
         e.via = "private" /\ e.val = Null

HexChars == DigitChars \cup {"a", "b", "c", "d", "e", "f", "A", "B", "C", "D", "E", "F"}

\* a dotted quad: four runs of one to three decimal digits, each at most 255
WellFormedIPv4(k) ==
  LET parts == split(k, ".")
  IN  /\ Len(parts) = 4
      /\ \A i \in DOMAIN parts :
           /\ Len(parts[i]) \in 1..3
           /\ \A j \in DOMAIN parts[i] : IsDigit(parts[i][j])
           /\ parseInt(parts[i]) <= 255

\* IPv6 text: groups of up to four hexadecimal digits between colons, eight of
\* them, or fewer with one "::"
WellFormedIPv6(k) ==
  LET groups == split(k, ":")
      gaps == {i \in 1..(Len(k) - 1) : k[i] = ":" /\ k[i + 1] = ":"}
  IN  /\ \A i \in DOMAIN k : k[i] \in HexChars \cup {":"}
      /\ \A i \in DOMAIN groups : Len(groups[i]) <= 4
      /\ Cardinality(gaps) <= 1
      /\ IF gaps = {} THEN Len(groups) = 8 /\ \A i \in DOMAIN groups : groups[i] # <<>>
         ELSE Len(groups) \in 3..8

\* the reserved blocks of IPv6: ::/128, ::1/128, fc00::/7, fe80::/10,
\* fec0::/10, ff00::/8, 2001:db8::/32, 2001:10::/28, 2002::/16
ReservedIPv6(k) ==
  LET lower == toLowerCase(k)
      first == Head(split(lower, ":"))
  IN  \/ lower \in {<<":", ":">>, <<":", ":", "1">>}
      \/ Len(first) = 4 /\ SubSeq(first, 1, 2) \in {<<"f", "c">>, <<"f", "d">>, <<"f", "f">>}
      \/ Len(first) = 4 /\ SubSeq(first, 1, 2) = <<"f", "e">> /\ first[3] \in {"8", "9", "a", "b", "c", "d", "e", "f"}
      \/ startsWith(lower, <<"2", "0", "0", "1", ":", "d", "b", "8", ":">>)
      \/ startsWith(lower, <<"2", "0", "0", "1", ":", "1">>)
      \/ first = <<"2", "0", "0", "2">>

\* a well-formed address outside the private and reserved ranges
WellFormedPublic(k) ==
  \/ WellFormedIPv4(k) /\ ~isPrivateIPv4(Octets(k)) /\ ~InNamedRange(Octets(k))
  \/ WellFormedIPv6(k) /\ ~ReservedIPv6(k)

\* C31: a key that is not a well-formed public IPv4 or IPv6 address (text that
\* does not parse, a bracketed address, an address with a port, IPv6 text of a
\* reserved block under any prefix) is classified private: its lookup is
\* answered null by the private filter, and no resolution is ever started or
\* pending for it.
C31_FailSafePrivate ==
  /\ \A r \in ResIds : Active(r) => WellFormedPublic(res[r].ip)
  /\ \A k \in DOMAIN pendingRequests : pendingRequests[k] # 0 => WellFormedPublic(k)
  /\ \A e \in settled :
       e.ip # NoIp /\ ~WellFormedPublic(e.ip) => e.via = "private" /\ e.val = Null

\* C32: a lookup of a key that is in the cache is answered by the cache hit,
\* whatever the breaker and the rate limiter say: it settles to the cached
\* value (a cached null included), follows and starts no resolution, and
\* leaves the breaker, the rate limiter's window and last-request time, and
\* the pending map as they were.
C32_CacheHitFirst ==
  [][/\ \A e \in settled' :
          e.role = "direct" /\ e.ip # NoIp /\ MapHas(cache, e.ip) =>
            /\ e.via = "hit" /\ e.how = "resolved" /\ e.res = 0
            /\ e.val = MapGet(cache, e.ip)
            /\ UNCHANGED <<circuitBreaker, requestQueue, lastRequestTime,
                           pendingRequests, res, waiters>>
     /\ \A r \in ResIds : Starts(r) => ~MapHas(cache, res'[r].ip)
     /\ \A r \in ResIds : waiters'[r] > waiters[r] => ~MapHas(cache, res[r].ip)]_vars

\* a cached null was served while the breaker was OPEN and the window full
C32_Witness ==
  /\ \E e \in settled : e.via = "hit" /\ e.val = Null
  /\ circuitBreaker.state = "OPEN"
  /\ Len(requestQueue) >= maxRequestsPerMinute

\* C33: a lookup turned away by the open breaker leaves a null cache entry for
\* its key; while that entry stays, every lookup of the key is answered null
\* by the cache hit and starts no resolution, whatever the state of the
\* breaker; and the entry goes only when a write to the full cache evicts it
\* or the cache is cleared.
C33_OpenRejectionCached ==
  [][/\ \A e \in settled' :
          e.via = "open" =>
            /\ MapHas(cache', e.ip) /\ MapGet(cache', e.ip) = Null
            /\ e.ip \in rejected'
     /\ \A e \in settled' :
          e.ip \in rejected => e.via = "hit" /\ e.val = Null /\ e.res = 0
     /\ \A r \in ResIds : Starts(r) => res'[r].ip \notin rejected
     /\ \A k \in rejected \ rejected' :
          \/ cache' = <<>> /\ res' = res
          \/ /\ Len(cache) = maxCacheSize
             /\ cache[1][1] = k
             /\ MapKeys(cache') \ MapKeys(cache) # {}]_vars

\* the breaker has been closed by the success of a later resolution, and a
\* lookup of the key turned away before is still answered null from the cache
C33_Witness ==
  /\ circuitBreaker.state = "CLOSED"
  /\ circuitBreaker.lastFailureTime # NullTime
  /\ \E i \in DOMAIN cache : cache[i][2] # Null
  /\ \E e \in settled : e.via = "hit" /\ e.val = Null /\ e.ip \in rejected

\* C34: in every state (the points at which a caller can run) no key is both
\* in the cache and in pendingRequests and the key of every resolution in
\* flight is in pendingRequests; the step that removes a key from
\* pendingRequests is the step that writes its cache entry, so the key is
\* pending before the step and cached after it.
C34_PendingOrCached ==
  /\ [](\A k \in DOMAIN pendingRequests : ~(MapHas(cache, k) /\ pendingRequests[k] # 0))
  /\ [](\A r \in ResIds : Active(r) => pendingRequests[res[r].ip] = r)
  /\ [][\A k \in DOMAIN pendingRequests :
          pendingRequests[k] # 0 /\ pendingRequests'[k] = 0 =>
            /\ ~MapHas(cache, k)
            /\ MapHas(cache', k)
            /\ \E e \in settled' : e.ip = k /\ e.role = "start" /\ e.val = MapGet(cache', k)]_vars

\* a resolution that callers had joined has just settled: its key is cached
\* and no longer pending, while another key is still pending
C34_Witness ==
  /\ \E e \in settled :
       /\ e.role = "join"
       /\ MapHas(cache, e.ip)
       /\ pendingRequests[e.ip] = 0
  /\ \E k \in DOMAIN pendingRequests : pendingRequests[k] # 0

\* C35: a HALF_OPEN breaker has counted at least maxFailures - 1 failures, and
\* the settlement of a resolution whose attempts all failed in the upstream
\* call, made while the breaker is HALF_OPEN, leaves the breaker OPEN.
C35_HalfOpenFailureReopens ==
  /\ [](circuitBreaker.state = "HALF_OPEN" => circuitBreaker.failures >= maxFailures - 1)
  /\ [][\A e \in settled' :
          e.role = "start" /\ e.via = "failure" /\ circuitBreaker.state = "HALF_OPEN" =>
            circuitBreaker'.state = "OPEN"]_vars

\* the state InitOpenReset starts from: the breaker OPEN with a failure count
\* of 0 and the time of the trip recorded
OpenWithCountReset ==
  /\ circuitBreaker.state = "OPEN"
  /\ circuitBreaker.failures = 0
  /\ circuitBreaker.lastFailureTime # NullTime

\* C36: the settlement of a resolution that the rate limiter ended leaves the
\* breaker as it was: the failure count, lastFailureTime and the state.
C36_RateLimitLeavesBreaker ==
  [][\A e \in settled' :
       e.role = "start" /\ e.via = "ratelimit" =>
         /\ circuitBreaker'.failures = circuitBreaker.failures
         /\ circuitBreaker'.lastFailureTime = circuitBreaker.lastFailureTime
         /\ circuitBreaker'.state = circuitBreaker.state]_vars

\* the rate limiter has ended a resolution that came through the gate of the
\* HALF_OPEN breaker, which still has its count
C36_Witness ==
  /\ \E e \in settled : e.role = "start" /\ e.via = "ratelimit"
  /\ circuitBreaker.state = "HALF_OPEN"
  /\ circuitBreaker.failures >= maxFailures

LiveTimers(kind) == {t.id : t \in {u \in timers : u.kind = kind}}

\* C37: in every state (each handler of a connection, a close or an error has
\* run to its end) the DNS timer and the stats timer are set exactly when
\* activeConnections is not empty, and the intervals the event loop holds are
\* the ones the two variables name: at most one of each kind.
C37_TimersFollowConnections ==
  /\ dnsPollingInterval # NoTimer <=> activeConnections # {}
  /\ statsPollingInterval # NoTimer <=> activeConnections # {}
  /\ LiveTimers("dns") = {dnsPollingInterval} \ {NoTimer}
  /\ LiveTimers("stats") = {statsPollingInterval} \ {NoTimer}
  /\ Cardinality({t \in timers : t.kind = "dns"}) <= 1
  /\ Cardinality({t \in timers : t.kind = "stats"}) <= 1

\* one socket has had an error and is still to close, the other is connected:
\* the timers run, and the DNS timer has run before
C37_Witness ==
  /\ \E ws \in Sockets : sockets[ws] = "errored"
  /\ \E ws \in Sockets : ws \in activeConnections
  /\ dnsPollingInterval # NoTimer
  /\ \E t \in timers : t.kind = "dns" /\ t.due > StartTime + config.pollInterval

\* C38: processDNSEntry is called at most once for each entry id (timestamp,
\* domain, client), whatever the polls return again, however the polls
\* overlap, and whatever processedIds has evicted.
C38_ProcessedOnce ==
  \A id \in EntryIds : processed[id] <= 1

\* the set of processed ids is large enough never to evict
NoEviction == config.maxProcessedIds >= MaxEntries

====
